---- MODULE Spec2Model ----
(* Model of tron_lightcycle.py: two light cycles on an 800x600 playfield,  *)
(* the per-frame update (move both, evaluate collisions, record winner),   *)
(* direction changes from key events and restart from space / mouse click. *)
EXTENDS Integers, Sequences, FiniteSets, TLC

VARIABLES cycle1, cycle2, game_over, winner, event, ticks, turns

vars == <<cycle1, cycle2, game_over, winner, event, ticks, turns>>

(* ---------------------------------------------------------------- bounds *)
\* Heading changes modelled per game while the game is running.
MaxTurns == 2
\* Input events are modelled while the game is running only during the
\* frames that precede update number MaxInputTick + 1.
MaxInputTick == 5
\* The update counter stops counting at MaxTicks; no modelled game lasts
\* that long.
MaxTicks == 200
\* Heading changes modelled per running game under LiveSpec.
MaxLiveTurns == 1

(* ------------------------------------------------------------- constants *)
SCREEN_W == 800
SCREEN_H == 600
speed == 5
GRACE == 10
HITBOX == 5

Direction ==
  [UP |-> <<0, -1>>, DOWN |-> <<0, 1>>, LEFT |-> <<-1, 0>>, RIGHT |-> <<1, 0>>]

player1_controls ==
  [K_w |-> "UP", K_s |-> "DOWN", K_a |-> "LEFT", K_d |-> "RIGHT"]

player2_controls ==
  [K_UP |-> "UP", K_DOWN |-> "DOWN", K_LEFT |-> "LEFT", K_RIGHT |-> "RIGHT"]

K_SPACE == "K_SPACE"

Keys == DOMAIN player1_controls \cup DOMAIN player2_controls \cup {K_SPACE}

\* Sampled pointer positions: inside the restart button, on its left edge,
\* on its bottom edge, and far away.
MousePositions == {<<400, 425>>, <<300, 425>>, <<400, 450>>, <<100, 100>>}

\* Polled mouse states: the position is read only while the button is down.
MouseInputs ==
  ({TRUE} \X MousePositions) \cup {<<FALSE, <<400, 425>>>>}

None == "None"

abs(n) == IF n < 0 THEN -n ELSE n

(* ------------------------------------------------------------ LightCycle *)
\* LightCycle.__init__
LightCycle(x, y, direction, player_name) ==
  [x |-> x, y |-> y, direction |-> direction, trail |-> <<(<<x, y>>)>>,
   player_name |-> player_name, alive |-> TRUE]

\* move that forgets the speed factor and steps by the unit vector.
move_unit_step(c) ==
  IF ~c.alive THEN c
  ELSE LET dx == Direction[c.direction][1]
           dy == Direction[c.direction][2]
           nx == c.x + dx
           ny == c.y + dy
       IN [c EXCEPT !.x = nx, !.y = ny, !.trail = Append(@, <<nx, ny>>)]

\* move that records the position it leaves instead of the one it reaches.
move_append_old(c) ==
  IF ~c.alive THEN c
  ELSE LET dx == Direction[c.direction][1]
           dy == Direction[c.direction][2]
       IN [c EXCEPT !.x = c.x + dx * speed, !.y = c.y + dy * speed,
                    !.trail = Append(@, <<c.x, c.y>>)]

\* move that keeps only the 20 most recent trail points.
move_capped(c) ==
  IF ~c.alive THEN c
  ELSE LET dx == Direction[c.direction][1]
           dy == Direction[c.direction][2]
           nx == c.x + dx * speed
           ny == c.y + dy * speed
           t == Append(c.trail, <<nx, ny>>)
       IN [c EXCEPT !.x = nx, !.y = ny,
                    !.trail = IF Len(t) > 20 THEN Tail(t) ELSE t]

\* LightCycle.move
move(c) ==
  IF ~c.alive THEN c
  ELSE LET dx == Direction[c.direction][1]
           dy == Direction[c.direction][2]
           nx == c.x + dx * speed
           ny == c.y + dy * speed
       IN [c EXCEPT !.x = nx, !.y = ny, !.trail = Append(@, <<nx, ny>>)]

\* change_direction without the early return for a dead cycle.
change_direction_dead_too(c, new_direction) ==
  LET current_dx == Direction[c.direction][1]
      current_dy == Direction[c.direction][2]
      new_dx == Direction[new_direction][1]
      new_dy == Direction[new_direction][2]
  IN IF <<current_dx, current_dy>> # <<-new_dx, -new_dy>>
     THEN [c EXCEPT !.direction = new_direction]
     ELSE c

\* change_direction without the 180-degree test.
change_direction_unchecked(c, new_direction) ==
  IF ~c.alive THEN c ELSE [c EXCEPT !.direction = new_direction]

\* LightCycle.change_direction
change_direction(c, new_direction) ==
  IF ~c.alive THEN c
  ELSE LET current_dx == Direction[c.direction][1]
           current_dy == Direction[c.direction][2]
           new_dx == Direction[new_direction][1]
           new_dy == Direction[new_direction][2]
       IN IF <<current_dx, current_dy>> # <<-new_dx, -new_dy>>
          THEN [c EXCEPT !.direction = new_direction]
          ELSE c

\* Python slice s[:k] for a negative stop k: the stop index len+k is
\* clamped at 0, so a short sequence yields the empty sequence.
SliceToNeg(s, k) ==
  LET stop == IF Len(s) + k < 0 THEN 0 ELSE Len(s) + k
  IN SubSeq(s, 1, stop)

\* self.trail[:-1]: only the head itself is exempt.
OlderTrail_head_only(trail) == SliceToNeg(trail, -1)

\* self.trail[:-10]
OlderTrail(trail) == SliceToNeg(trail, -GRACE)

\* check_collision that exempts the 10 most recent entries of both trails.
check_collision_both_recent(c, other_trail) ==
  IF ~c.alive THEN [cycle |-> c, hit |-> FALSE]
  ELSE IF c.x < 0 \/ c.x > SCREEN_W \/ c.y < 0 \/ c.y > SCREEN_H
       THEN [cycle |-> [c EXCEPT !.alive = FALSE], hit |-> TRUE]
       ELSE IF \E head \in {<<c.x, c.y>>} :
                 \E segments \in
                      {OlderTrail(other_trail) \o OlderTrail(c.trail)} :
                   \E i \in 1..Len(segments) :
                     /\ abs(head[1] - segments[i][1]) < HITBOX
                     /\ abs(head[2] - segments[i][2]) < HITBOX
            THEN [cycle |-> [c EXCEPT !.alive = FALSE], hit |-> TRUE]
            ELSE [cycle |-> c, hit |-> FALSE]

\* check_collision whose trail branch returns True without clearing alive.
check_collision_no_mark(c, other_trail) ==
  IF ~c.alive THEN [cycle |-> c, hit |-> FALSE]
  ELSE IF c.x < 0 \/ c.x > SCREEN_W \/ c.y < 0 \/ c.y > SCREEN_H
       THEN [cycle |-> [c EXCEPT !.alive = FALSE], hit |-> TRUE]
       ELSE [cycle |-> c,
             hit |-> \E head \in {<<c.x, c.y>>} :
                       \E segments \in {other_trail \o OlderTrail(c.trail)} :
                         \E i \in 1..Len(segments) :
                           /\ abs(head[1] - segments[i][1]) < HITBOX
                           /\ abs(head[2] - segments[i][2]) < HITBOX]

\* LightCycle.check_collision: the cycle after the call and the returned flag.
\* head and the list other_trail + self.trail[:-10] are built once, then
\* scanned.
check_collision(c, other_trail) ==
  IF ~c.alive THEN [cycle |-> c, hit |-> FALSE]
  ELSE IF c.x < 0 \/ c.x > SCREEN_W \/ c.y < 0 \/ c.y > SCREEN_H
       THEN [cycle |-> [c EXCEPT !.alive = FALSE], hit |-> TRUE]
       ELSE IF \E head \in {<<c.x, c.y>>} :
                 \E segments \in {other_trail \o OlderTrail(c.trail)} :
                   \E i \in 1..Len(segments) :
                     /\ abs(head[1] - segments[i][1]) < HITBOX
                     /\ abs(head[2] - segments[i][2]) < HITBOX
            THEN [cycle |-> [c EXCEPT !.alive = FALSE], hit |-> TRUE]
            ELSE [cycle |-> c, hit |-> FALSE]

(* ------------------------------------------------------------------ Game *)
\* Game.__init__: the game fields a (re)construction sets.
NewGame ==
  [cycle1 |-> LightCycle(200, 300, "RIGHT", "Player 1"),
   cycle2 |-> LightCycle(600, 300, "LEFT", "Player 2"),
   game_over |-> FALSE,
   winner |-> None]

Game(c1, c2, over, w) ==
  [cycle1 |-> c1, cycle2 |-> c2, game_over |-> over, winner |-> w]

\* The value of an expression evaluated once, as a call result in Python.
Once(S) == CHOOSE v \in S : TRUE

\* The winner branches with the two names exchanged.
pick_winner_swapped(c1, c2) ==
  IF ~c1.alive /\ ~c2.alive THEN "Draw"
  ELSE IF ~c1.alive THEN c1.player_name
  ELSE c2.player_name

\* The winner chosen by Game.update once a collision was reported.
pick_winner(c1, c2) ==
  IF ~c1.alive /\ ~c2.alive THEN "Draw"
  ELSE IF ~c1.alive THEN c2.player_name
  ELSE c1.player_name

\* update that moves the second cycle only after the first cycle's check
\* reported no hit.
update_move_late(g) ==
  IF g.game_over THEN g
  ELSE LET m1 == move(g.cycle1)
           m2 == move(g.cycle2)
           first == check_collision(m1, g.cycle2.trail)
           second(r1) == IF r1.hit THEN [cycle |-> g.cycle2, hit |-> FALSE]
                         ELSE check_collision(m2, r1.cycle.trail)
           outcome(r1, r2) ==
             IF r1.hit \/ r2.hit
             THEN Game(r1.cycle, r2.cycle, TRUE, pick_winner(r1.cycle, r2.cycle))
             ELSE Game(r1.cycle, r2.cycle, g.game_over, g.winner)
       IN Once({outcome(r[1], r[2]) : r \in {<<r1, second(r1)>> : r1 \in {first}}})

\* update that records the winner but never sets game_over.
update_no_flag(g) ==
  IF g.game_over THEN g
  ELSE LET m1 == move(g.cycle1)
           m2 == move(g.cycle2)
           first == check_collision(m1, m2.trail)
           second(r1) == IF r1.hit THEN [cycle |-> m2, hit |-> FALSE]
                         ELSE check_collision(m2, r1.cycle.trail)
           outcome(r1, r2) ==
             IF r1.hit \/ r2.hit
             THEN Game(r1.cycle, r2.cycle, g.game_over, pick_winner(r1.cycle, r2.cycle))
             ELSE Game(r1.cycle, r2.cycle, g.game_over, g.winner)
       IN Once({outcome(r[1], r[2]) : r \in {<<r1, second(r1)>> : r1 \in {first}}})

\* update without the early return on game_over.
update_unguarded(g) ==
  LET m1 == move(g.cycle1)
      m2 == move(g.cycle2)
      first == check_collision(m1, m2.trail)
      second(r1) == IF r1.hit THEN [cycle |-> m2, hit |-> FALSE]
                    ELSE check_collision(m2, r1.cycle.trail)
      outcome(r1, r2) ==
        IF r1.hit \/ r2.hit
        THEN Game(r1.cycle, r2.cycle, TRUE, pick_winner(r1.cycle, r2.cycle))
        ELSE Game(r1.cycle, r2.cycle, g.game_over, g.winner)
  IN Once({outcome(r[1], r[2]) : r \in {<<r1, second(r1)>> : r1 \in {first}}})

\* Game.update.  The two collision checks are joined by a short-circuit
\* "or": the second cycle is checked only when the first reports no hit.
\* Each check_collision call is evaluated once and its result reused.
update(g) ==
  IF g.game_over THEN g
  ELSE LET m1 == move(g.cycle1)
           m2 == move(g.cycle2)
           first == check_collision(m1, m2.trail)
           second(r1) == IF r1.hit THEN [cycle |-> m2, hit |-> FALSE]
                         ELSE check_collision(m2, r1.cycle.trail)
           outcome(r1, r2) ==
             IF r1.hit \/ r2.hit
             THEN Game(r1.cycle, r2.cycle, TRUE, pick_winner(r1.cycle, r2.cycle))
             ELSE Game(r1.cycle, r2.cycle, g.game_over, g.winner)
       IN Once({outcome(r[1], r[2]) : r \in {<<r1, second(r1)>> : r1 \in {first}}})

\* A space-key restart that does not test game_over.
handle_keydown_restart_always(g, key) ==
  LET c1 == IF key \in DOMAIN player1_controls /\ g.cycle1.alive
            THEN change_direction(g.cycle1, player1_controls[key])
            ELSE g.cycle1
      c2 == IF key \in DOMAIN player2_controls /\ g.cycle2.alive
            THEN change_direction(g.cycle2, player2_controls[key])
            ELSE g.cycle2
  IN IF key = K_SPACE THEN NewGame
     ELSE Game(c1, c2, g.game_over, g.winner)

\* A space-key restart that clears the outcome but keeps the cycles.
handle_keydown_keep_cycles(g, key) ==
  LET c1 == IF key \in DOMAIN player1_controls /\ g.cycle1.alive
            THEN change_direction(g.cycle1, player1_controls[key])
            ELSE g.cycle1
      c2 == IF key \in DOMAIN player2_controls /\ g.cycle2.alive
            THEN change_direction(g.cycle2, player2_controls[key])
            ELSE g.cycle2
  IN IF key = K_SPACE /\ g.game_over THEN Game(c1, c2, FALSE, None)
     ELSE Game(c1, c2, g.game_over, g.winner)

\* Game.handle_keyboard_input, body of the loop for one KEYDOWN event.
handle_keydown(g, key) ==
  LET c1 == IF key \in DOMAIN player1_controls /\ g.cycle1.alive
            THEN change_direction(g.cycle1, player1_controls[key])
            ELSE g.cycle1
      c2 == IF key \in DOMAIN player2_controls /\ g.cycle2.alive
            THEN change_direction(g.cycle2, player2_controls[key])
            ELSE g.cycle2
  IN IF key = K_SPACE /\ g.game_over THEN NewGame
     ELSE Game(c1, c2, g.game_over, g.winner)

\* A click restart that does not test the button area.
handle_mouse_input_anywhere(g, pressed, pos) ==
  IF pressed /\ g.game_over THEN NewGame ELSE g

\* Game.handle_mouse_input
handle_mouse_input(g, pressed, pos) ==
  IF pressed /\ g.game_over
  THEN IF 300 < pos[1] /\ pos[1] < 500 /\ 400 < pos[2] /\ pos[2] < 450
       THEN NewGame
       ELSE g
  ELSE g

(* --------------------------------------------------------------- actions *)
Cur == Game(cycle1, cycle2, game_over, winner)

Install(g) ==
  /\ cycle1' = g.cycle1
  /\ cycle2' = g.cycle2
  /\ game_over' = g.game_over
  /\ winner' = g.winner

Ev(op, key, pressed, pos, reinit) ==
  [op |-> op, key |-> key, pressed |-> pressed, pos |-> pos, reinit |-> reinit]

\* Inputs are modelled after the game is over, and early in a running game.
InputWindow == game_over \/ ticks <= MaxInputTick

HeadingChanges(g) ==
  (IF g.cycle1.direction # cycle1.direction THEN 1 ELSE 0)
  + (IF g.cycle2.direction # cycle2.direction THEN 1 ELSE 0)

Init ==
  /\ cycle1 = NewGame.cycle1
  /\ cycle2 = NewGame.cycle2
  /\ game_over = NewGame.game_over
  /\ winner = NewGame.winner
  /\ event = Ev("init", "", FALSE, <<0, 0>>, FALSE)
  /\ ticks = 0
  /\ turns = 0

\* One iteration of Game.run reaching self.update().
Tick ==
  /\ \E g \in {update(Cur)} : Install(g)
  /\ event' = Ev("update", "", FALSE, <<0, 0>>, FALSE)
  /\ ticks' = IF game_over \/ ticks >= MaxTicks THEN ticks ELSE ticks + 1
  /\ turns' = turns

\* One KEYDOWN event taken from the queue by handle_keyboard_input.
KeyDown(key) ==
  /\ InputWindow
  /\ key # K_SPACE => (game_over \/ turns < MaxTurns)
  /\ LET g == handle_keydown(Cur, key)
         restarted == key = K_SPACE /\ game_over
     IN /\ Install(g)
        /\ ticks' = IF restarted THEN 0 ELSE ticks
        /\ turns' = IF restarted THEN 0
                    ELSE IF game_over THEN turns
                    ELSE turns + HeadingChanges(g)
        /\ event' = Ev("keydown", key, FALSE, <<0, 0>>, restarted)

\* One call of handle_mouse_input with the polled button and position.
Mouse(pressed, pos) ==
  /\ InputWindow
  /\ LET g == handle_mouse_input(Cur, pressed, pos)
         restarted == g # Cur
     IN /\ Install(g)
        /\ ticks' = IF restarted THEN 0 ELSE ticks
        /\ turns' = IF restarted THEN 0 ELSE turns
        /\ event' = Ev("mouse", "", pressed, pos, restarted)

Next ==
  \/ Tick
  \/ \E key \in Keys : KeyDown(key)
  \/ \E m \in MouseInputs : Mouse(m[1], m[2])

Spec == Init /\ [][Next]_vars

\* The same steps with the smaller budget of heading changes.
LiveKeyDown(key) == KeyDown(key) /\ turns' <= MaxLiveTurns

LiveNext ==
  \/ Tick
  \/ \E key \in Keys : LiveKeyDown(key)
  \/ \E m \in MouseInputs : Mouse(m[1], m[2])

\* Game.run calls self.update() in every iteration of its loop.
LiveSpec == Init /\ [][LiveNext]_vars /\ WF_vars(Tick)

(* ------------------------------------------------- vocabulary of claims *)
Cycles == {1, 2}
cyc(i) == IF i = 1 THEN cycle1 ELSE cycle2
opp(i) == IF i = 1 THEN cycle2 ELSE cycle1

OutOfBounds(c) == c.x < 0 \/ c.x > 800 \/ c.y < 0 \/ c.y > 600

InBox(c, p) ==
  /\ c.x - p[1] < 5 /\ p[1] - c.x < 5
  /\ c.y - p[2] < 5 /\ p[2] - c.y < 5

HitsOther(c, o) == \E i \in 1..Len(o.trail) : InBox(c, o.trail[i])

\* Own trail points older than the 10 most recent entries.
HitsOwnOld(c) == \E i \in 1..(Len(c.trail) - 10) : InBox(c, c.trail[i])

CollisionCondition(c, o) == OutOfBounds(c) \/ HitsOther(c, o) \/ HitsOwnOld(c)

(* ---------------------------------------------------------------- claims *)
\* C1: whenever both cycles meet a collision condition (head outside the
\* playfield, or inside the 5-box of a point of the opponent's trail or of
\* its own trail older than 10 entries), the game is finished with winner
\* "Draw" and both cycles not alive.
C1_BothCollideDraw ==
  (CollisionCondition(cycle1, cycle2) /\ CollisionCondition(cycle2, cycle1))
    => (game_over /\ winner = "Draw" /\ ~cycle1.alive /\ ~cycle2.alive)

\* C2: in every reachable state an alive cycle lies inside the playfield
\* 0 <= x <= 800, 0 <= y <= 600.
C2_AliveInsideBounds ==
  \A i \in Cycles : cyc(i).alive => ~OutOfBounds(cyc(i))

\* A restart request: the space key, or a left click inside the button.
RestartRequest(e) ==
  \/ e.op = "keydown" /\ e.key = "K_SPACE"
  \/ /\ e.op = "mouse" /\ e.pressed
     /\ 300 < e.pos[1] /\ e.pos[1] < 500 /\ 400 < e.pos[2] /\ e.pos[2] < 450

Died(i) == cyc(i).alive /\ ~cyc(i)'.alive

\* C3: within one game, game_over never reverts to false once true, and
\* winner is assigned exactly once, by the update that first detects a
\* death, and never changed afterwards by updates or key events.
C3_FinishedIsPermanent ==
  [][ /\ (game_over /\ ~RestartRequest(event'))
          => (game_over' /\ winner' = winner)
      /\ (~game_over /\ game_over')
          => (event'.op = "update" /\ winner = "None" /\ winner' # "None"
              /\ \E i \in Cycles : Died(i))
      /\ (~game_over /\ ~game_over') => (winner' = winner /\ winner = "None")
    ]_vars

C3_Witness ==
  /\ game_over /\ winner # "None"
  /\ event.op = "keydown" /\ event.key = "K_LEFT"
  /\ cycle2.alive /\ cycle2.direction = "LEFT"

\* C4: update on a finished game changes nothing: both cycles (position,
\* direction, trail, alive), game_over and winner keep their values.
C4_UpdateAfterFinishedNoop ==
  [][ (game_over /\ event'.op = "update")
        => /\ cycle1' = cycle1 /\ cycle2' = cycle2
           /\ game_over' = game_over /\ winner' = winner ]_vars

LastStep(c) ==
  <<c.trail[Len(c.trail)][1] - c.trail[Len(c.trail) - 1][1],
    c.trail[Len(c.trail)][2] - c.trail[Len(c.trail) - 1][2]>>

\* A finished game whose survivor was turned after the end and then saw an
\* update: its heading differs from the heading of its last move.
C4_Witness ==
  /\ game_over /\ event.op = "update"
  /\ cycle1.alive /\ cycle1.direction = "DOWN" /\ LastStep(cycle1) = <<5, 0>>

Opposite == [UP |-> "DOWN", DOWN |-> "UP", LEFT |-> "RIGHT", RIGHT |-> "LEFT"]

controls(i) == IF i = 1 THEN player1_controls ELSE player2_controls

\* C5: a turn request D to an alive cycle heading C keeps C when D is the
\* opposite of C and sets the heading to D otherwise; position, trail and
\* alive flag do not change.
C5_TurnRule ==
  [][ \A i \in Cycles : \A k \in DOMAIN controls(i) :
        (event'.op = "keydown" /\ event'.key = k /\ cyc(i).alive)
          => LET C == cyc(i).direction
                 D == controls(i)[k]
             IN /\ cyc(i)'.direction = (IF D = Opposite[C] THEN C ELSE D)
                /\ cyc(i)'.x = cyc(i).x /\ cyc(i)'.y = cyc(i).y
                /\ cyc(i)'.trail = cyc(i).trail
                /\ cyc(i)'.alive = cyc(i).alive ]_vars

\* A running game in which cycle 1, heading RIGHT, was just asked to go LEFT.
C5_Witness ==
  /\ ~game_over /\ event.op = "keydown" /\ event.key = "K_a"
  /\ cycle1.alive /\ cycle1.direction = "RIGHT"

StepOf(d) ==
  CASE d = "UP" -> <<0, -5>>
    [] d = "DOWN" -> <<0, 5>>
    [] d = "LEFT" -> <<-5, 0>>
    [] d = "RIGHT" -> <<5, 0>>

MoveStepEffect ==
  (event'.op = "update" /\ ~game_over)
    => \A i \in Cycles :
         cyc(i).alive
           => LET c == cyc(i)
                  p == <<c.x + StepOf(c.direction)[1],
                         c.y + StepOf(c.direction)[2]>>
              IN /\ cyc(i)'.trail = Append(c.trail, p)
                 /\ cyc(i)'.x = p[1] /\ cyc(i)'.y = p[2]
                 /\ cyc(i)'.direction = c.direction

MoveKeepsFlags ==
  \A i \in Cycles :
    LET c == cyc(i)
        m == move(c)
    IN /\ m.alive = c.alive /\ m.direction = c.direction
       /\ c.alive => Len(m.trail) = Len(c.trail) + 1
       /\ ~c.alive => (m.x = c.x /\ m.y = c.y /\ Len(m.trail) = Len(c.trail))

\* C6: each move of an alive cycle appends exactly one point, the old
\* position plus 5 times the heading's unit vector, and moves the cycle
\* there; heading and alive flag are unchanged; a dead cycle is not moved.
C6_MoveAppendsOnePoint == [][MoveStepEffect]_vars /\ []MoveKeepsFlags

\* Scenario A: the first update of a game took cycle 1 from (200,300) to
\* (205,300).
C6_Witness ==
  /\ event.op = "update"
  /\ cycle1.trail = << <<200, 300>>, <<205, 300>> >>
  /\ cycle1.x = 205 /\ cycle1.y = 300

\* C7: a restart honoured on a finished game yields the exact initial
\* configuration: cycle 1 at (200,300) heading RIGHT, cycle 2 at (600,300)
\* heading LEFT, both alive with a one-point trail, game_over false and
\* winner unset, whatever the state before.
C7_RestartGivesInitialConfiguration ==
  [][ (game_over /\ RestartRequest(event'))
        => /\ cycle1' = [x |-> 200, y |-> 300, direction |-> "RIGHT",
                         trail |-> << <<200, 300>> >>,
                         player_name |-> "Player 1", alive |-> TRUE]
           /\ cycle2' = [x |-> 600, y |-> 300, direction |-> "LEFT",
                         trail |-> << <<600, 300>> >>,
                         player_name |-> "Player 2", alive |-> TRUE]
           /\ game_over' = FALSE
           /\ winner' = "None" ]_vars

\* The handler has just reconstructed the game after a mouse click.
C7_Witness ==
  /\ event.reinit /\ event.op = "mouse"
  /\ ~game_over /\ Len(cycle1.trail) = 1 /\ Len(cycle2.trail) = 1

\* C8: in a finished game the winner is "Draw" iff both cycles are dead,
\* and otherwise names the cycle that is alive while its opponent is dead.
C8_WinnerIsTheSurvivor ==
  game_over =>
    /\ winner \in {"Draw", "Player 1", "Player 2"}
    /\ (winner = "Draw") <=> (~cycle1.alive /\ ~cycle2.alive)
    /\ (winner = "Player 1") => (cycle1.alive /\ ~cycle2.alive)
    /\ (winner = "Player 2") => (cycle2.alive /\ ~cycle1.alive)

\* Only the second cycle collided, with the first cycle's trail.
C8_Witness ==
  /\ game_over /\ event.op = "update" /\ winner = "Player 1"
  /\ ~cycle2.alive /\ cycle1.alive /\ HitsOther(cycle2, cycle1)

\* Whether check_collision ran on cycle i during the update just taken.
Checked(i) == i = 1 \/ cycle1'.alive

\* C9: a cycle killed by an update is out of bounds, or in the box of a
\* point of the opponent's trail, or in the box of an own trail entry below
\* index length-10; so a trail of 10 or fewer entries never causes a
\* self-collision, and every older own entry does.
C9_GraceWindow ==
  [][ (event'.op = "update" /\ ~game_over)
        => \A i \in Cycles :
             /\ Died(i) => \/ OutOfBounds(cyc(i)')
                           \/ HitsOther(cyc(i)', opp(i)')
                           \/ HitsOwnOld(cyc(i)')
             /\ (Died(i) /\ Len(cyc(i)'.trail) <= 10)
                  => (OutOfBounds(cyc(i)') \/ HitsOther(cyc(i)', opp(i)'))
             /\ (cyc(i).alive /\ Checked(i) /\ HitsOwnOld(cyc(i)'))
                  => ~cyc(i)'.alive ]_vars

\* A running cycle with a short trail whose head is back on an own point.
C9_Witness ==
  /\ ~game_over /\ event.op = "update" /\ cycle1.alive
  /\ Len(cycle1.trail) <= 10
  /\ \E j \in 1..(Len(cycle1.trail) - 1) :
       cycle1.trail[j] = <<cycle1.x, cycle1.y>>

IsPrefix(s, t) == Len(s) <= Len(t) /\ SubSeq(t, 1, Len(s)) = s

TrailEndsAtHead ==
  \A i \in Cycles :
    /\ Len(cyc(i).trail) >= 1
    /\ cyc(i).trail[Len(cyc(i).trail)] = <<cyc(i).x, cyc(i).y>>

\* C10: every trail is non-empty and ends at the cycle's position, and
\* except across a restart a trail only grows at its end.
C10_TrailAppendOnly ==
  /\ []TrailEndsAtHead
  /\ [][ ~(game_over /\ RestartRequest(event'))
           => \A i \in Cycles : IsPrefix(cyc(i).trail, cyc(i)'.trail) ]_vars

\* Cycle 1 has turned off its starting row and kept its whole history.
C10_Witness ==
  /\ Len(cycle1.trail) = 12 /\ cycle1.trail[1] = <<200, 300>>
  /\ cycle1.y # 300 /\ event.op = "update"

DeadIsInert ==
  \A i \in Cycles :
    ~cyc(i).alive
      => /\ move(cyc(i)) = cyc(i)
         /\ \A D \in DOMAIN Direction : change_direction(cyc(i), D) = cyc(i)
         /\ check_collision(cyc(i), opp(i).trail).hit = FALSE
         /\ check_collision(cyc(i), opp(i).trail).cycle = cyc(i)

\* C11: a cycle starts alive; once dead it stays dead until a restart, no
\* update or key event changes its position, heading or trail, move and
\* change_direction leave it as it is, and check_collision returns false.
C11_DeadIsTerminal ==
  /\ (cycle1.alive /\ cycle2.alive)
  /\ []DeadIsInert
  /\ [][ ~(game_over /\ RestartRequest(event'))
           => \A i \in Cycles : ~cyc(i).alive => cyc(i)' = cyc(i) ]_vars

\* Cycle 1 is dead and its UP key has just been handled.
C11_Witness ==
  /\ ~cycle1.alive /\ event.op = "keydown" /\ event.key = "K_w"
  /\ cycle1.direction # "UP"

\* C12: game_over is true iff at least one cycle is not alive, iff winner
\* is set; in a running game both cycles are alive and winner is unset.
C12_OutcomeFactsAgree ==
  /\ game_over <=> (~cycle1.alive \/ ~cycle2.alive)
  /\ game_over <=> (winner # "None")

\* The update that killed cycle 1 on cycle 2's trail set all three facts.
C12_Witness ==
  /\ game_over /\ event.op = "update" /\ winner = "Player 2"
  /\ ~cycle1.alive /\ cycle2.alive /\ HitsOther(cycle1, cycle2)

\* Move j+1 of a trail undoes move j exactly when it returns to the point
\* the cycle occupied before move j.
ReversedAt(t, j) == t[j + 2] = t[j]

\* C13: no cycle ever makes two consecutive moves in exactly opposite
\* headings, whatever key events arrive between the two updates.
C13_NoReversalExecuted ==
  \A i \in Cycles :
    \A j \in 1..(Len(cyc(i).trail) - 2) : ~ReversedAt(cyc(i).trail, j)

C15_RestartIgnoredWhileRunning ==
  [][ (~game_over /\ RestartRequest(event'))
        => /\ cycle1' = cycle1 /\ cycle2' = cycle2
           /\ game_over' = game_over /\ winner' = winner ]_vars

\* A running game past its first update in which the space key was pressed.
C15_Witness ==
  /\ ~game_over /\ event.op = "keydown" /\ event.key = "K_SPACE"
  /\ Len(cycle1.trail) > 1 /\ Len(cycle2.trail) > 1

\* C16: in a running game neither head is in the 5-box of a point of the
\* opponent's trail or of an own trail entry older than the 10 most recent.
C16_RunningHeadsAreClear ==
  ~game_over
    => \A i \in Cycles :
         ~HitsOther(cyc(i), opp(i)) /\ ~HitsOwnOld(cyc(i))

\* A near miss: cycle 1 runs one step below a point of cycle 2's trail.
C16_Witness ==
  /\ ~game_over /\ event.op = "update"
  /\ \E j \in 1..Len(cycle2.trail) :
       cycle2.trail[j] = <<cycle1.x, cycle1.y - 5>>

OnGrid(p) == p[1] % 5 = 0 /\ p[2] % 5 = 0

GridOfFives ==
  \E h1 \in {<<cycle1.x, cycle1.y>>} :
    \E h2 \in {<<cycle2.x, cycle2.y>>} :
      /\ OnGrid(h1)
      /\ OnGrid(h2)
      /\ \A k \in Cycles :
           \E t \in {cyc(k).trail} :
             \A j \in 1..Len(t) :
               /\ OnGrid(t[j])
               /\ InBox(cycle1, t[j]) <=> (t[j] = h1)
               /\ InBox(cycle2, t[j]) <=> (t[j] = h2)

\* C17: in every reachable state every position and trail point has
\* coordinates that are multiples of 5, so a head is in the 5-box of a
\* trail point exactly when the two points are equal.
C17_GridOfFives == []GridOfFives

\* Cycle 2 died with its head on a point of cycle 1's trail.
C17_Witness ==
  /\ ~cycle2.alive /\ event.op = "update"
  /\ \E j \in 1..Len(cycle1.trail) :
       cycle1.trail[j] = <<cycle2.x, cycle2.y>>

\* C18: both trails have the same length, one more than the number of
\* updates executed while running since the last (re)start.
C18_Lockstep ==
  /\ Len(cycle1.trail) = Len(cycle2.trail)
  /\ Len(cycle1.trail) = ticks + 1

\* The update that killed cycle 1 also moved cycle 2.
C18_Witness ==
  /\ game_over /\ event.op = "update" /\ ~cycle1.alive /\ cycle2.alive
  /\ LastStep(cycle2) # <<0, 0>> /\ ticks >= 10

====
